---- MODULE Spec2Model ----
(***************************************************************************)
(* A model of scraper.py: the browser session, the two listing adapters    *)
(* (scrape_stepstone, scrape_linkedin), the orchestrator                   *)
(* (scrape_all_platforms), the workbook jobs.xlsx and the two store        *)
(* operations on it (create_excel_if_not_exists, append_jobs_to_excel).    *)
(*                                                                         *)
(* Two specifications share the definitions:                               *)
(*   Spec       one execution of the __main__ block, step by step;         *)
(*   SpecStore  the store operations called in any order on any workbook   *)
(*              with any list of job records.                              *)
(***************************************************************************)
EXTENDS Naturals, Sequences, FiniteSets, TLC

VARIABLES
    pc,             \* position of the __main__ block / the running function
    file,           \* jobs.xlsx on disk: Missing, Corrupt or a workbook
    browser,        \* the Chrome process: "none", "open" or "closed"
    opened,         \* number of Chrome processes started
    ti,             \* index of the search term of the orchestrator's loop
    page,           \* the adapter's loop variable `page`
    remaining,      \* cards of the current page not yet visited
    jobs,           \* the running adapter's local list `jobs`
    stepstone_jobs, \* the orchestrator's list stepstone_jobs
    linkedin_jobs,  \* the orchestrator's list linkedin_jobs
    calls,          \* adapter invocations so far: <<term index, platform>>
    errors,         \* number of "Error ..." lines the adapters have printed
    card,           \* the card loop's variable `card`
    last,           \* the last store operation: its name, arguments, outcome
    nops,           \* number of store operations done (SpecStore)
    loaded,         \* pages the running adapter has asked the browser to load
    applied         \* optional UI steps of the StepStone search that took effect

vars == <<pc, file, browser, opened, ti, page, remaining, jobs,
          stepstone_jobs, linkedin_jobs, calls, errors, card, last, nops, loaded,
          applied>>

(***************************************************************************)
(* Bounds of the model.                                                    *)
(***************************************************************************)
\* most cards one result page holds
MaxCards == 2
\* longest list of records SpecStore hands to append_jobs_to_excel
MaxList == 2
\* most store operations of one SpecStore behaviour
MaxOps == 2

(***************************************************************************)
(* Helpers on sequences.                                                   *)
(***************************************************************************)
Range(s) == {s[i] : i \in 1..Len(s)}

SeqsUpTo(S, n) == UNION {[1..k -> S] : k \in 0..n}

IsPrefix(s, t) == Len(s) <= Len(t) /\ SubSeq(t, 1, Len(s)) = s

RECURSIVE SelectRows(_, _)
\* the rows of s whose URL the set urls does not hold, in order
SelectRows(s, urls) ==
    IF s = <<>> THEN <<>>
    ELSE IF Head(s)["URL"] \in urls THEN SelectRows(Tail(s), urls)
         ELSE <<Head(s)>> \o SelectRows(Tail(s), urls)

\* str.startswith('http')
StartsWithHttp(s) == Len(s) >= 4 /\ SubSeq(s, 1, 4) = "http"

(***************************************************************************)
(* The workbook.                                                           *)
(***************************************************************************)
EXCEL_FILE == "jobs.xlsx"

Platforms == {"StepStone", "LinkedIn"}

\* the 11 columns of a platform sheet, in order
Columns ==
    <<"Job Title", "Company", "Location", "Description", "URL", "Posted Date",
      "Date Added", "Applied", "Application Date", "Status", "Notes">>

ColumnSet == Range(Columns)

\* os.path.exists(EXCEL_FILE) is false
Missing == [kind |-> "missing"]
\* the file exists and is no readable workbook
Corrupt == [kind |-> "corrupt"]
\* a workbook: sheet name -> [header, rows]; a row maps each header column
\* to the text of its cell, "" for an empty cell
Workbook(sheets) == [kind |-> "workbook", sheets |-> sheets]

IsWorkbook(f) == f.kind = "workbook"

SheetNames(f) == IF IsWorkbook(f) THEN DOMAIN f.sheets ELSE {}

\* a sheet as DataFrame.to_excel(index=False) of a frame without rows writes it
EmptySheet == [header |-> Columns, rows |-> <<>>]

\* the rows of sheet p of f; none when there is no such sheet
RowsOf(f, p) == IF p \in SheetNames(f) THEN f.sheets[p].rows ELSE <<>>

\* the URL cells of sheet p of f, in row order
UrlsOf(f, p) == [i \in 1..Len(RowsOf(f, p)) |-> RowsOf(f, p)[i]["URL"]]

(***************************************************************************)
(* pandas.read_excel and DataFrame.to_excel, as append_jobs_to_excel calls *)
(* them (all defaults).                                                    *)
(***************************************************************************)
\* the value pandas gives a missing cell
NaN == "NaN(float)"

\* read_excel's default na_values (keep_default_na=True): a cell holding one
\* of these texts, or nothing, is read as NaN
NaTokens ==
    {"", "#N/A", "#N/A N/A", "#NA", "-1.#IND", "-1.#QNAN", "-NaN", "-nan",
     "1.#IND", "1.#QNAN", "<NA>", "N/A", "NA", "NULL", "NaN", "None", "n/a",
     "nan", "null"}

ReadCell(v) == IF v \in NaTokens THEN NaN ELSE v

\* to_excel writes NaN as na_rep = '' : an empty cell
WriteCell(v) == IF v = NaN THEN "" ELSE v

\* pd.DataFrame()
EmptyFrame == [columns |-> <<>>, rows |-> <<>>]

\* DataFrame.empty
FrameEmpty(df) == df.columns = <<>> \/ df.rows = <<>>

\* pd.read_excel(EXCEL_FILE, sheet_name=sheet_name): raises when the file is
\* missing, is no workbook, or has no such sheet
read_excel(f, sheet_name) ==
    IF sheet_name \notin SheetNames(f)
    THEN [raised |-> TRUE, frame |-> EmptyFrame]
    ELSE LET sh == f.sheets[sheet_name]
         IN [raised |-> FALSE,
             frame |-> [columns |-> sh.header,
                        rows |-> [i \in 1..Len(sh.rows) |->
                                    [c \in Range(sh.header) |->
                                        ReadCell(sh.rows[i][c])]]]]

\* df.to_excel(writer, sheet_name=..., index=False): the sheet written
to_excel(df) ==
    [header |-> df.columns,
     rows |-> [i \in 1..Len(df.rows) |->
                 [c \in Range(df.columns) |-> WriteCell(df.rows[i][c])]]]

\* pd.concat([a, b], ignore_index=True): a's columns, then b's other columns;
\* a cell of a column a frame lacks is NaN
concat(a, b) ==
    LET cols == a.columns \o SelectSeq(b.columns, LAMBDA c : c \notin Range(a.columns))
        Fill(row, own) == [c \in Range(cols) |-> IF c \in Range(own) THEN row[c] ELSE NaN]
    IN [columns |-> cols,
        rows |-> [i \in 1..Len(a.rows) |-> Fill(a.rows[i], a.columns)]
                 \o [i \in 1..Len(b.rows) |-> Fill(b.rows[i], b.columns)]]

(***************************************************************************)
(* append_jobs_to_excel(new_jobs, platform).                               *)
(***************************************************************************)
\* the row built for one job (the dict appended to new_data)
NewRow(job, today) ==
    [c \in ColumnSet |->
        CASE c = "Job Title" -> job.title
          [] c = "Company" -> job.company
          [] c = "Location" -> job.location
          [] c = "Description" -> job.description
          [] c = "URL" -> job.url
          [] c = "Posted Date" -> job.posted_date
          [] c = "Date Added" -> today
          [] c = "Applied" -> "No"
          [] c = "Application Date" -> ""
          [] c = "Status" -> "New"
          [] c = "Notes" -> ""]

\* df_new before the duplicates are removed: one row per element of new_jobs
NewFrame(new_jobs, today) ==
    [columns |-> Columns,
     rows |-> [i \in 1..Len(new_jobs) |-> NewRow(new_jobs[i], today)]]

\* set(df_existing['URL'].dropna())
ExistingUrls(df_existing) ==
    {df_existing.rows[i]["URL"] : i \in 1..Len(df_existing.rows)} \ {NaN}

\* (mutant) the duplicate filter left out: every new row is kept
RemoveDuplicates_KeepAll(df_new, df_existing) == df_new

\* df_new[~df_new['URL'].isin(existing_urls)], applied when df_existing is
\* not empty
RemoveDuplicates(df_new, df_existing) ==
    IF FrameEmpty(df_existing) THEN df_new
    ELSE [df_new EXCEPT !.rows = SelectRows(df_new.rows, ExistingUrls(df_existing))]

\* (mutant) every platform is kept in the same sheet
sheet_name_Shared(platform) == "StepStone"

\* sheet_name = platform
sheet_name(platform) == platform

\* the whole function: the file it leaves, whether it raised, and the two
\* numbers it prints (added, total)
append_jobs_to_excel(f, new_jobs, platform, today) ==
    LET sheet == sheet_name(platform)
        rd == read_excel(f, sheet)
        df_existing == IF rd.raised THEN EmptyFrame ELSE rd.frame
        df_new == RemoveDuplicates(NewFrame(new_jobs, today), df_existing)
        df_combined == IF FrameEmpty(df_existing) THEN df_new
                       ELSE concat(df_existing, df_new)
        same == [file |-> f, raised |-> FALSE, added |-> 0,
                 total |-> Len(RowsOf(f, sheet))]
        fails == [file |-> f, raised |-> TRUE, added |-> 0,
                  total |-> Len(RowsOf(f, sheet))]
    IN  IF new_jobs = <<>> THEN same
        ELSE IF ~FrameEmpty(df_existing) /\ "URL" \notin Range(df_existing.columns)
        THEN fails          \* df_existing['URL'] raises KeyError
        ELSE IF FrameEmpty(df_new) THEN same
        ELSE IF ~IsWorkbook(f)
        THEN fails          \* ExcelWriter(mode='a') opens an existing workbook
        ELSE [file |-> Workbook([s \in SheetNames(f) \cup {sheet} |->
                                    IF s = sheet THEN to_excel(df_combined)
                                    ELSE f.sheets[s]]),
              raised |-> FALSE,
              added |-> Len(df_new.rows),
              total |-> Len(df_combined.rows)]

(***************************************************************************)
(* create_excel_if_not_exists().                                           *)
(***************************************************************************)
\* the files the function can leave.  Deleting the only sheet makes
\* wb.save raise after the file was opened for writing; the except clause
\* swallows it and what is left on disk is the old file or a broken one.
create_excel_if_not_exists(f) ==
    IF f = Missing
    THEN {Workbook([s \in Platforms |-> EmptySheet])}
    ELSE IF ~IsWorkbook(f) THEN {f}
    ELSE IF "Jobs" \in SheetNames(f)
    THEN IF SheetNames(f) = {"Jobs"} THEN {f, Corrupt}
         ELSE {Workbook([s \in SheetNames(f) \ {"Jobs"} |-> f.sheets[s]])}
    ELSE {f}

(***************************************************************************)
(* The inputs of one run: the fixed arguments of __main__ and the listing  *)
(* cards the two sites can show.                                           *)
(***************************************************************************)
\* search_keywords of __main__
search_keywords == <<"werkstudent IT", "working student software">>

NumTerms == Len(search_keywords)

\* location="Berlin" of __main__
location == "Berlin"

\* max_pages=2 of __main__
max_pages == 2

\* description[:500]
DescriptionLimit == 500

\* datetime.now().strftime("%Y-%m-%d") at the time of a merge: the behaviours
\* modelled take place within one day, later than the rows already stored
Dates == {"2024-05-02"}

\* A listing card, by what the selectors of the adapters find in it:
\*   link     an anchor whose href holds the platform's job path exists
\*   href     that anchor's href ("" without the anchor)
\*   h3       the LinkedIn title element (base-search-card__title) exists
\*   title    the text of the title element
\*   company  the text of the company element found by either selector, "" if none
\*   place    the text of the location element, "" if none
\*   text     the text of the first <p>, "" if none
\*   time     the datetime of the <time> element, "" if none
Card(link, href, h3, title, company, place, text, time) ==
    [link |-> link, href |-> href, h3 |-> h3, title |-> title,
     company |-> company, place |-> place, text |-> text, time |-> time]

\* the cards a StepStone page can hold: a posting with an absolute link, the
\* same posting with a relative link and neither company nor date, a second
\* posting, and an article without a posting link
StepStoneCards ==
    {Card(TRUE, "https://www.stepstone.de/stellenangebote--a", FALSE,
          "Werkstudent IT", "Acme", "Berlin", "Python", "2024-05-01"),
     Card(TRUE, "/stellenangebote--a", FALSE,
          "Werkstudent IT", "", "", "", ""),
     Card(TRUE, "/stellenangebote--b", FALSE,
          "Working Student", "Acme", "", "", ""),
     Card(FALSE, "", FALSE, "", "", "", "", "")}

\* the cards a LinkedIn page can hold: a full card, a card without h3 with a
\* relative link, a card with a title and no job link, and a card with neither
LinkedInCards ==
    {Card(TRUE, "https://www.linkedin.com/jobs/view/a", TRUE,
          "Werkstudent IT", "Acme", "Berlin", "", "2024-05-01"),
     Card(TRUE, "/jobs/view/b", FALSE,
          "Working Student", "", "", "", ""),
     Card(FALSE, "", TRUE, "Promoted", "Acme", "", "", ""),
     Card(FALSE, "", FALSE, "", "", "", "", "")}

\* `card` outside the card loops
NoCard == Card(FALSE, "", FALSE, "<unset>", "", "", "", "")

Truncate(s, n) == IF Len(s) <= n THEN s ELSE SubSeq(s, 1, n)

\* (mutant) the guard left out: no URL counts as collected already
HasUrl_Never(js, url) == FALSE

\* any(j['url'] == job_url for j in jobs)
HasUrl(js, url) == \E i \in 1..Len(js) : js[i].url = url

(***************************************************************************)
(* The body of the card loop of scrape_stepstone: the list `jobs` after    *)
(* one card.                                                               *)
(***************************************************************************)
\* except Exception: continue, around one card
ss_card_except(js) == js

ss_card(js, c, search_term) ==
    IF ~c.link THEN ss_card_except(js)     \* find_element raises
    ELSE IF c.href = "" THEN js            \* if not job_url: continue
    ELSE LET job_url == IF StartsWithHttp(c.href) THEN c.href
                        ELSE "https://www.stepstone.de" \o c.href
             job == [title |-> c.title,
                     company |-> IF c.company # "" THEN c.company ELSE "N/A",
                     location |-> IF c.place # "" THEN c.place ELSE location,
                     description |-> Truncate(c.text, DescriptionLimit),
                     url |-> job_url,
                     posted_date |-> IF c.time # "" THEN c.time ELSE "N/A",
                     platform |-> "StepStone",
                     search_term |-> search_term]
         IN IF HasUrl(js, job_url) THEN js ELSE Append(js, job)

(***************************************************************************)
(* The body of the card loop of scrape_linkedin.                           *)
(***************************************************************************)
\* (mutant) the append guard without `job_url and`: a card with a title and
\* no job link is appended with an empty URL
li_card_NoKeyCheck(js, c, search_term) ==
    IF ~c.h3 /\ ~c.link THEN js
    ELSE LET href == IF c.link THEN c.href ELSE ""
             job_url == IF href # "" /\ ~StartsWithHttp(href)
                        THEN "https://www.linkedin.com" \o href
                        ELSE href
             job == [title |-> c.title,
                     company |-> IF c.company # "" THEN c.company ELSE "N/A",
                     location |-> IF c.place # "" THEN c.place ELSE location,
                     description |-> "",
                     url |-> job_url,
                     posted_date |-> IF c.time # "" THEN c.time ELSE "24h",
                     platform |-> "LinkedIn",
                     search_term |-> search_term]
         IN IF ~HasUrl(js, job_url) THEN Append(js, job) ELSE js

li_card(js, c, search_term) ==
    IF ~c.h3 /\ ~c.link THEN js         \* if not title_elem: continue
    ELSE LET href == IF c.link THEN c.href ELSE ""   \* None
             job_url == IF href # "" /\ ~StartsWithHttp(href)
                        THEN "https://www.linkedin.com" \o href
                        ELSE href
             job == [title |-> c.title,
                     company |-> IF c.company # "" THEN c.company ELSE "N/A",
                     location |-> IF c.place # "" THEN c.place ELSE location,
                     description |-> "",
                     url |-> job_url,
                     posted_date |-> IF c.time # "" THEN c.time ELSE "24h",
                     platform |-> "LinkedIn",
                     search_term |-> search_term]
         IN IF job_url # "" /\ ~HasUrl(js, job_url) THEN Append(js, job) ELSE js

(***************************************************************************)
(* Where an exception inside an adapter goes: the next position, the list  *)
(* `jobs` there, and the number of error lines printed.                    *)
(***************************************************************************)
\* scrape_stepstone, cookie banner: bare except -> print, go on with the
\* 24-hour filter
ss_cookie_except == "ss_time"

\* scrape_stepstone, 24-hour filter: except Exception -> print, go on with
\* the language filter
ss_time_except == "ss_lang"

\* (mutant) a failed language filter gives the search up
ss_lang_except_Abort == "ss_return"

\* scrape_stepstone, language filter: except Exception -> print, go on with
\* the page loop
ss_lang_except == "ss_page"

\* scrape_stepstone, outer try: except Exception -> print, then return jobs
ss_outer_except(js) == [pc |-> "ss_return", jobs |-> js, printed |-> 1]

\* (mutant) the page loop without its except clause: the exception leaves
\* the adapter and unwinds the orchestrator
ss_page_except_Raise(js) == [pc |-> "unwind", jobs |-> js, printed |-> 0]

\* scrape_stepstone, page loop: except Exception -> print, break
ss_page_except(js) == [pc |-> "ss_return", jobs |-> js, printed |-> 1]

\* (mutant) the except clause goes round the loop with the same page again
li_page_except_Retry(js) == [pc |-> "li_page", jobs |-> js, printed |-> 1]

\* (mutant) the except clause returns an empty list instead of breaking
li_page_except_Drop(js) == [pc |-> "li_return", jobs |-> <<>>, printed |-> 1]

\* scrape_linkedin, page loop: except Exception -> print, break
li_page_except(js) == [pc |-> "li_return", jobs |-> js, printed |-> 1]

(***************************************************************************)
(* The state before __main__ runs.                                         *)
(***************************************************************************)
NoOp == [op |-> "none", platform |-> "", new_jobs |-> <<>>, raised |-> FALSE,
         again |-> FALSE, before |-> Missing]

\* a record of the store operation just done
Op(name, platform, new_jobs, raised, again, before) ==
    [op |-> name, platform |-> platform, new_jobs |-> new_jobs,
     raised |-> raised, again |-> again, before |-> before]

\* a row an earlier run stored (from the StepStone card without company and
\* date), which the user has edited since
StoredRow ==
    [NewRow(ss_card(<<>>, Card(TRUE, "/stellenangebote--a", FALSE,
                               "Werkstudent IT", "", "", "", ""),
                    search_keywords[1])[1], "2024-05-01")
        EXCEPT !["Applied"] = "Yes", !["Status"] = "Interview",
               !["Notes"] = "call back"]

\* the sheet of a workbook written by the version that kept one sheet 'Jobs'
LegacySheet == [header |-> Columns, rows |-> <<StoredRow>>]

\* jobs.xlsx as one run can find it: not there yet, left by the earlier
\* version, or filled by an earlier run
InitFiles ==
    {Missing,
     Workbook([s \in {"Jobs"} |-> LegacySheet]),
     Workbook([s \in Platforms |->
                 IF s = "StepStone" THEN [header |-> Columns, rows |-> <<StoredRow>>]
                 ELSE EmptySheet])}

Init ==
    /\ pc = "create_excel"
    /\ file \in InitFiles
    /\ browser = "none"
    /\ opened = 0
    /\ ti = 1
    /\ page = 0
    /\ remaining = 0
    /\ jobs = <<>>
    /\ stepstone_jobs = <<>>
    /\ linkedin_jobs = <<>>
    /\ calls = <<>>
    /\ errors = 0
    /\ card = NoCard
    /\ last = NoOp
    /\ nops = 0
    /\ loaded = <<>>
    /\ applied = {}

(***************************************************************************)
(* __main__: create_excel_if_not_exists()                                  *)
(***************************************************************************)
CreateExcel ==
    /\ pc = "create_excel"
    /\ file' \in create_excel_if_not_exists(file)
    /\ last' = Op("create", "", <<>>, FALSE, FALSE, Missing)
    /\ pc' = "setup_driver"
    /\ UNCHANGED <<browser, opened, ti, page, remaining, jobs,
                   stepstone_jobs, linkedin_jobs, calls, errors, card, nops, loaded, applied>>

(***************************************************************************)
(* scrape_all_platforms: driver = setup_driver(), before the try.          *)
(* "install": ChromeDriverManager().install() or webdriver.Chrome raises,  *)
(*            no browser runs;                                             *)
(* "script":  Chrome runs and driver.execute_script raises;                *)
(* "ok":      the driver is returned.                                      *)
(***************************************************************************)
setup_driver(outcome) ==
    CASE outcome = "install" -> [pc |-> "crashed", browser |-> "none", started |-> 0]
      [] outcome = "script" -> [pc |-> "crashed", browser |-> "open", started |-> 1]
      [] outcome = "ok" -> [pc |-> "ss_get", browser |-> "open", started |-> 1]

SetupDriver ==
    /\ pc = "setup_driver"
    /\ \E outcome \in {"install", "script", "ok"} :
          LET r == setup_driver(outcome)
          IN /\ pc' = r.pc
             /\ browser' = r.browser
             /\ opened' = opened + r.started
    /\ UNCHANGED <<file, ti, page, remaining, jobs, stepstone_jobs,
                   linkedin_jobs, calls, errors, card, last, nops, loaded, applied>>

(***************************************************************************)
(* scrape_stepstone(driver, search_term, location, max_pages)              *)
(***************************************************************************)
\* entry, jobs = [], and driver.get(url) of the search page
SS_Get ==
    /\ pc = "ss_get"
    /\ calls' = Append(calls, <<ti, "StepStone">>)
    /\ loaded' = <<1>>
    /\ applied' = {}
    /\ \E ok \in BOOLEAN :
          IF ok THEN pc' = "ss_cookie" /\ jobs' = <<>> /\ UNCHANGED errors
          ELSE /\ pc' = ss_outer_except(<<>>).pc
               /\ jobs' = ss_outer_except(<<>>).jobs
               /\ errors' = errors + ss_outer_except(<<>>).printed
    /\ UNCHANGED <<file, browser, opened, ti, page, remaining,
                   stepstone_jobs, linkedin_jobs, card, last, nops>>

\* the cookie banner: clicked, or the wait times out (bare except)
SS_Cookie ==
    /\ pc = "ss_cookie"
    /\ \E clicked \in BOOLEAN :
          IF clicked
          THEN pc' = "ss_time" /\ applied' = applied \cup {"cookies"}
          ELSE pc' = ss_cookie_except /\ UNCHANGED applied
    /\ UNCHANGED <<file, browser, opened, ti, page, remaining, jobs,
                   stepstone_jobs, linkedin_jobs, calls, errors, card, last,
                   nops, loaded>>

\* the 24-hour filter: clicked, or except Exception
SS_TimeFilter ==
    /\ pc = "ss_time"
    /\ \E clicked \in BOOLEAN :
          IF clicked
          THEN pc' = "ss_lang" /\ applied' = applied \cup {"24h"}
          ELSE pc' = ss_time_except /\ UNCHANGED applied
    /\ UNCHANGED <<file, browser, opened, ti, page, remaining, jobs,
                   stepstone_jobs, linkedin_jobs, calls, errors, card, last,
                   nops, loaded>>

\* the language filter: the filter panel (bare except: pass), the checkbox
\* (a timeout goes to except Exception, past the apply button), the apply
\* button (bare except: pass); then the page loop starts with page = 1
SS_LangFilter ==
    /\ pc = "ss_lang"
    /\ \E panel \in BOOLEAN, checkbox \in BOOLEAN, apply \in BOOLEAN :
          LET opened_panel == IF panel THEN {"panel"} ELSE {}
          IN  IF checkbox
              THEN /\ pc' = "ss_page"
                   /\ applied' = applied \cup opened_panel \cup {"english"}
                                    \cup (IF apply THEN {"apply"} ELSE {})
              ELSE /\ pc' = ss_lang_except
                   /\ applied' = applied \cup opened_panel
    /\ page' = 1
    /\ UNCHANGED <<file, browser, opened, ti, remaining, jobs,
                   stepstone_jobs, linkedin_jobs, calls, errors, card, last,
                   nops, loaded>>

\* one pass of the page loop up to the card loop:
\*   "raise"    driver.get of page 2+ or find_elements raises
\*   "timeout"  no article within the wait: break
\*   "empty"    find_elements returns no element: break
\*   "cards"    n cards are on the page
\* Page 1 is the page SS_Get loaded; a later page is loaded here, unless
\* reading driver.current_url raises first.
SS_Page ==
    /\ pc = "ss_page"
    /\ page <= max_pages
    /\ \E outcome \in {"raise", "timeout", "empty", "cards"}, n \in 1..MaxCards :
          CASE outcome = "raise" ->
                  /\ pc' = ss_page_except(jobs).pc
                  /\ jobs' = ss_page_except(jobs).jobs
                  /\ errors' = errors + ss_page_except(jobs).printed
                  /\ remaining' = 0
                  /\ \E got \in BOOLEAN :
                        loaded' = IF page > 1 /\ got THEN Append(loaded, page)
                                  ELSE loaded
            [] outcome \in {"timeout", "empty"} ->
                  /\ pc' = "ss_return"
                  /\ UNCHANGED <<jobs, errors>>
                  /\ remaining' = 0
                  /\ loaded' = IF page > 1 THEN Append(loaded, page) ELSE loaded
            [] outcome = "cards" ->
                  /\ pc' = "ss_card"
                  /\ UNCHANGED <<jobs, errors>>
                  /\ remaining' = n
                  /\ loaded' = IF page > 1 THEN Append(loaded, page) ELSE loaded
    /\ UNCHANGED <<file, browser, opened, ti, page, stepstone_jobs,
                   linkedin_jobs, calls, card, last, nops, applied>>

\* one card of the page; after the last card the loop goes to the next page
SS_Card ==
    /\ pc = "ss_card"
    /\ remaining > 0
    /\ \E c \in StepStoneCards :
          /\ card' = c
          /\ jobs' = ss_card(jobs, c, search_keywords[ti])
    /\ remaining' = remaining - 1
    /\ IF remaining = 1
       THEN /\ page' = page + 1
            /\ pc' = IF page + 1 > max_pages THEN "ss_return" ELSE "ss_page"
       ELSE UNCHANGED <<page, pc>>
    /\ UNCHANGED <<file, browser, opened, ti, stepstone_jobs, linkedin_jobs,
                   calls, errors, last, nops, loaded, applied>>

\* return jobs; the orchestrator extends stepstone_jobs and calls
\* scrape_linkedin with the same search term
SS_Return ==
    /\ pc = "ss_return"
    /\ stepstone_jobs' = stepstone_jobs \o jobs
    /\ jobs' = <<>>
    /\ calls' = Append(calls, <<ti, "LinkedIn">>)
    /\ page' = 0
    /\ remaining' = 0
    /\ card' = NoCard
    /\ loaded' = <<>>
    /\ pc' = "li_page"
    /\ applied' = {}
    /\ UNCHANGED <<file, browser, opened, ti, linkedin_jobs, errors, last, nops>>

(***************************************************************************)
(* scrape_linkedin(driver, search_term, location, max_pages)               *)
(***************************************************************************)
\* one pass of the page loop (page in range(max_pages)) up to the card loop:
\*   "raise"  driver.get, execute_script or the parse raises
\*   "empty"  no card by either selector: break
\*   "cards"  n cards are on the page
LI_Page ==
    /\ pc = "li_page"
    /\ page < max_pages
    /\ loaded' = Append(loaded, page + 1)
    /\ \E outcome \in {"raise", "empty", "cards"}, n \in 1..MaxCards :
          CASE outcome = "raise" ->
                  /\ pc' = li_page_except(jobs).pc
                  /\ jobs' = li_page_except(jobs).jobs
                  /\ errors' = errors + li_page_except(jobs).printed
                  /\ remaining' = 0
            [] outcome = "empty" ->
                  /\ pc' = "li_return"
                  /\ UNCHANGED <<jobs, errors>>
                  /\ remaining' = 0
            [] outcome = "cards" ->
                  /\ pc' = "li_card"
                  /\ UNCHANGED <<jobs, errors>>
                  /\ remaining' = n
    /\ UNCHANGED <<file, browser, opened, ti, page, stepstone_jobs,
                   linkedin_jobs, calls, card, last, nops, applied>>

LI_Card ==
    /\ pc = "li_card"
    /\ remaining > 0
    /\ \E c \in LinkedInCards :
          /\ card' = c
          /\ jobs' = li_card(jobs, c, search_keywords[ti])
    /\ remaining' = remaining - 1
    /\ IF remaining = 1
       THEN /\ page' = page + 1
            /\ pc' = IF page + 1 < max_pages THEN "li_page" ELSE "li_return"
       ELSE UNCHANGED <<page, pc>>
    /\ UNCHANGED <<file, browser, opened, ti, stepstone_jobs, linkedin_jobs,
                   calls, errors, last, nops, loaded, applied>>

\* return jobs; the orchestrator extends linkedin_jobs and takes the next
\* search term, or leaves the loop
LI_Return ==
    /\ pc = "li_return"
    /\ linkedin_jobs' = linkedin_jobs \o jobs
    /\ jobs' = <<>>
    /\ page' = 0
    /\ remaining' = 0
    /\ ti' = ti + 1
    /\ card' = NoCard
    /\ loaded' = <<>>
    /\ pc' = IF ti + 1 > NumTerms THEN "quit" ELSE "ss_get"
    /\ UNCHANGED <<file, browser, opened, stepstone_jobs, calls, errors, last, nops, applied>>

(***************************************************************************)
(* scrape_all_platforms: finally: driver.quit(); then return the lists, or *)
(* let the exception of the try block go on ("unwind": nothing returned).  *)
(***************************************************************************)
Quit ==
    /\ pc \in {"quit", "unwind"}
    /\ browser' = "closed"
    /\ IF pc = "quit"
       THEN pc' = "append_ss" /\ UNCHANGED <<stepstone_jobs, linkedin_jobs>>
       ELSE pc' = "crashed" /\ stepstone_jobs' = <<>> /\ linkedin_jobs' = <<>>
    /\ UNCHANGED <<file, opened, ti, page, remaining, jobs, calls, errors,
                   card, last, nops, loaded, applied>>

(***************************************************************************)
(* __main__: append_jobs_to_excel(stepstone_jobs, 'StepStone') and         *)
(* append_jobs_to_excel(linkedin_jobs, 'LinkedIn')                         *)
(***************************************************************************)
AppendStepStone ==
    /\ pc = "append_ss"
    /\ \E today \in Dates :
          LET r == append_jobs_to_excel(file, stepstone_jobs, "StepStone", today)
          IN /\ file' = r.file
             /\ last' = Op("append", "StepStone", stepstone_jobs, r.raised, FALSE, Missing)
             /\ pc' = IF r.raised THEN "crashed" ELSE "append_li"
    /\ UNCHANGED <<browser, opened, ti, page, remaining, jobs,
                   stepstone_jobs, linkedin_jobs, calls, errors, card, nops, loaded, applied>>

AppendLinkedIn ==
    /\ pc = "append_li"
    /\ \E today \in Dates :
          LET r == append_jobs_to_excel(file, linkedin_jobs, "LinkedIn", today)
          IN /\ file' = r.file
             /\ last' = Op("append", "LinkedIn", linkedin_jobs, r.raised, FALSE, Missing)
             /\ pc' = IF r.raised THEN "crashed" ELSE "done"
    /\ UNCHANGED <<browser, opened, ti, page, remaining, jobs,
                   stepstone_jobs, linkedin_jobs, calls, errors, card, nops, loaded, applied>>

Next ==
    \/ CreateExcel
    \/ SetupDriver
    \/ SS_Get
    \/ SS_Cookie
    \/ SS_TimeFilter
    \/ SS_LangFilter
    \/ SS_Page
    \/ SS_Card
    \/ SS_Return
    \/ LI_Page
    \/ LI_Card
    \/ LI_Return
    \/ Quit
    \/ AppendStepStone
    \/ AppendLinkedIn

Spec == Init /\ [][Next]_vars

(***************************************************************************)
(* SpecStore: the store operations on their own, in any order, on any      *)
(* workbook and with any list of records an adapter can return.            *)
(***************************************************************************)
\* the records a list handed to append_jobs_to_excel can hold: what the
\* platform's adapter makes of one card
StoreJobs(p) ==
    IF p = "StepStone"
    THEN {ss_card(<<>>, c, search_keywords[1])[1] :
             c \in {x \in StepStoneCards : ss_card(<<>>, x, search_keywords[1]) # <<>>}}
    ELSE {li_card(<<>>, c, search_keywords[1])[1] :
             c \in {x \in LinkedInCards : li_card(<<>>, x, search_keywords[1]) # <<>>}}

\* a workbook in which the user moved the stored StepStone row to the
\* LinkedIn sheet
MovedRowFile ==
    Workbook([s \in Platforms |->
                 IF s = "LinkedIn" THEN [header |-> Columns, rows |-> <<StoredRow>>]
                 ELSE EmptySheet])

\* jobs.xlsx as a store operation can find it
StoreInitFiles ==
    InitFiles \cup
    {Corrupt,
     Workbook([s \in {"Jobs"} \cup Platforms |->
                 IF s = "LinkedIn" THEN EmptySheet ELSE LegacySheet]),
     Workbook([s \in {"StepStone"} |-> EmptySheet]),
     MovedRowFile}

InitStore ==
    /\ pc = "store"
    /\ file \in StoreInitFiles
    /\ browser = "none"
    /\ opened = 0
    /\ ti = 1
    /\ page = 0
    /\ remaining = 0
    /\ jobs = <<>>
    /\ stepstone_jobs = <<>>
    /\ linkedin_jobs = <<>>
    /\ calls = <<>>
    /\ errors = 0
    /\ card = NoCard
    /\ last = NoOp
    /\ nops = 0
    /\ loaded = <<>>
    /\ applied = {}

scraping == <<pc, browser, opened, ti, page, remaining, jobs,
              stepstone_jobs, linkedin_jobs, calls, errors, card, loaded, applied>>

\* create_excel_if_not_exists()
St_Create ==
    /\ pc = "store"
    /\ nops < MaxOps
    /\ file' \in create_excel_if_not_exists(file)
    /\ last' = Op("create", "", <<>>, FALSE, FALSE, Missing)
    /\ nops' = nops + 1
    /\ UNCHANGED scraping

\* append_jobs_to_excel(new_jobs, platform)
St_Append ==
    /\ pc = "store"
    /\ nops < MaxOps
    /\ \E p \in Platforms, today \in Dates :
          \E new_jobs \in SeqsUpTo(StoreJobs(p), MaxList) :
             LET r == append_jobs_to_excel(file, new_jobs, p, today)
             IN /\ file' = r.file
                /\ last' = Op("append", p, new_jobs, r.raised, FALSE, Missing)
    /\ nops' = nops + 1
    /\ UNCHANGED scraping

\* append_jobs_to_excel called once more with the arguments of the call
\* just made
St_AppendAgain ==
    /\ pc = "store"
    /\ nops < MaxOps
    /\ last.op = "append"
    /\ \E today \in Dates :
          LET r == append_jobs_to_excel(file, last.new_jobs, last.platform, today)
          IN /\ file' = r.file
             /\ last' = Op("append", last.platform, last.new_jobs, r.raised, TRUE, file)
    /\ nops' = nops + 1
    /\ UNCHANGED scraping

\* the user marks a stored posting as applied for and writes a note, in Excel
St_UserEdit ==
    /\ pc = "store"
    /\ nops < MaxOps
    /\ \E p \in Platforms \cap SheetNames(file) :
          \E i \in 1..Len(file.sheets[p].rows) :
             /\ file.sheets[p].rows[i]["Applied"] = "No"
             /\ file' = [file EXCEPT !.sheets[p].rows[i] =
                            [@ EXCEPT !["Applied"] = "Yes",
                                      !["Application Date"] = "2024-05-04",
                                      !["Status"] = "Applied",
                                      !["Notes"] = "sent CV"]]
    /\ last' = Op("edit", "", <<>>, FALSE, FALSE, Missing)
    /\ nops' = nops + 1
    /\ UNCHANGED scraping

NextStore ==
    \/ St_Create
    \/ St_Append
    \/ St_AppendAgain
    \/ St_UserEdit

SpecStore == InitStore /\ [][NextStore]_vars

(***************************************************************************)
(* Vocabulary of the properties.                                           *)
(***************************************************************************)
\* the step is a merge (append_jobs_to_excel) of SpecStore
MergeStep == nops' = nops + 1 /\ last'.op = "append"

\* the step is create_excel_if_not_exists of SpecStore
CreateStep == nops' = nops + 1 /\ last'.op = "create"

\* the URLs of a list of job records
JobUrls(js) == {js[i].url : i \in 1..Len(js)}

\* the URLs stored in sheet p
SheetUrls(f, p) == Range(UrlsOf(f, p))

\* the URL cells of sheet p are pairwise distinct
DistinctUrls(f, p) ==
    \A i, j \in 1..Len(RowsOf(f, p)) :
        i # j => RowsOf(f, p)[i]["URL"] # RowsOf(f, p)[j]["URL"]

\* the run of scrape_all_platforms is over: it returned or raised
RunOver == pc \in {"append_ss", "append_li", "done", "crashed"}

\* the adapter invocations of one run, in order
ExpectedCalls ==
    <<<<1, "StepStone">>, <<1, "LinkedIn">>, <<2, "StepStone">>, <<2, "LinkedIn">>>>

\* the records collected for platform p so far in the run: those the
\* orchestrator holds and those of the running adapter
Collected(p) ==
    IF p = "StepStone"
    THEN Range(stepstone_jobs) \cup
         (IF pc \in {"ss_cookie", "ss_time", "ss_lang", "ss_page", "ss_card", "ss_return"}
          THEN Range(jobs) ELSE {})
    ELSE Range(linkedin_jobs) \cup
         (IF pc \in {"li_page", "li_card", "li_return"} THEN Range(jobs) ELSE {})

\* no URL can be extracted from the card: no posting link, or a link
\* without href
NoUrlCard(c) == ~c.link \/ c.href = ""

(***************************************************************************)
(* C1. Key uniqueness at rest: in every state of a run of __main__ the URL *)
(* cells of each platform sheet are pairwise distinct.                     *)
(* Fails: a URL found under both search terms is in stepstone_jobs twice,  *)
(* and the merge removes only the URLs already in the sheet.               *)
(***************************************************************************)
C1_KeyUniqueness == \A p \in Platforms : DistinctUrls(file, p)

(***************************************************************************)
(* C2. Merge result count: a merge that completes adds exactly one row for *)
(* each distinct URL of new_jobs that the sheet did not hold: rows after = *)
(* rows before + number of distinct absent URLs.                           *)
(* Fails: a list holding an absent URL twice adds two rows.                *)
(***************************************************************************)
C2_MergeCount ==
    [][(MergeStep /\ ~last'.raised) =>
          Len(RowsOf(file', last'.platform)) =
             Len(RowsOf(file, last'.platform))
             + Cardinality(JobUrls(last'.new_jobs) \ SheetUrls(file, last'.platform))]_vars

(***************************************************************************)
(* C3. Dedup idempotence: when a merge is repeated with the same list      *)
(* right after it was made, the second merge leaves the workbook as the    *)
(* first left it (same rows, same count): it adds no row.                  *)
(***************************************************************************)
C3_DedupIdempotence == last.again => file = last.before

\* a merge that stored rows (stamped the day of the merge) was repeated
C3_Witness ==
    /\ last.again
    /\ ~last.raised
    /\ last.new_jobs # <<>>
    /\ \E i \in 1..Len(RowsOf(file, last.platform)) :
          /\ RowsOf(file, last.platform)[i]["Date Added"] \in Dates
          /\ RowsOf(file, last.platform)[i]["URL"] \in JobUrls(last.new_jobs)

(***************************************************************************)
(* C4. Non-destructive merge: after a merge into a platform sheet the rows *)
(* the sheet held before are a prefix of the sheet, every cell unchanged.  *)
(* Fails: a stored cell holding "N/A" (the adapters' sentinel for Company  *)
(* and Posted Date) is read back as missing and rewritten empty.           *)
(***************************************************************************)
C4_NonDestructive ==
    [][MergeStep =>
          IsPrefix(RowsOf(file, last'.platform), RowsOf(file', last'.platform))]_vars

(***************************************************************************)
(* C5. Session release: one browser at most is started, and when the run   *)
(* is over (returned or raised) a browser that was started is closed.      *)
(* Fails: setup_driver runs before the try; when execute_script raises in  *)
(* it, Chrome is running and nothing quits it.                             *)
(***************************************************************************)
C5_SessionReleased ==
    /\ opened <= 1
    /\ (RunOver /\ opened > 0) => browser = "closed"

(***************************************************************************)
(* C6. Store load failure is non-fatal: a merge of a non-empty list whose  *)
(* load fails (file missing or unreadable, or no such sheet) does not      *)
(* raise and leaves every URL of the list in the platform sheet.           *)
(* Fails: with the file missing or unreadable the load is survived and the *)
(* write (ExcelWriter in append mode) raises.                              *)
(***************************************************************************)
C6_LoadFailureNotFatal ==
    [][(MergeStep /\ last'.new_jobs # <<>> /\ read_excel(file, last'.platform).raised) =>
          /\ ~last'.raised
          /\ JobUrls(last'.new_jobs) \subseteq SheetUrls(file', last'.platform)]_vars

(***************************************************************************)
(* C7. Adapter failure isolation: no exception leaves an adapter; the      *)
(* invocations made are always a prefix of (term 1, StepStone), (term 1,   *)
(* LinkedIn), (term 2, StepStone), (term 2, LinkedIn), and once the loop   *)
(* is left all four have been made, whatever failed in them.               *)
(***************************************************************************)
C7_FailureIsolation ==
    /\ pc # "unwind"
    /\ IsPrefix(calls, ExpectedCalls)
    /\ (pc \in {"quit", "append_ss", "append_li", "done"}) => calls = ExpectedCalls
    /\ (pc = "crashed" /\ calls # <<>>) => calls = ExpectedCalls

\* every one of the four invocations printed an error, the first included,
\* and all four were made
C7_Witness == pc = "quit" /\ errors = 2 * NumTerms /\ calls = ExpectedCalls

(***************************************************************************)
(* C8. No loss of earlier scraped data: a record once collected for a      *)
(* platform stays collected in every later step of the run, so the lists   *)
(* the run returns and __main__ hands to the merge hold it.                *)
(***************************************************************************)
C8_NoLoss ==
    [][\A p \in Platforms : Collected(p) \subseteq Collected(p)']_vars

\* the run has returned, every invocation failed after it had collected a
\* record, and both lists hold records of both search terms
C8_Witness ==
    /\ pc = "append_ss"
    /\ errors = 2 * NumTerms
    /\ \A t \in 1..NumTerms :
          /\ \E i \in 1..Len(stepstone_jobs) :
                stepstone_jobs[i].search_term = search_keywords[t]
          /\ \E i \in 1..Len(linkedin_jobs) :
                linkedin_jobs[i].search_term = search_keywords[t]

(***************************************************************************)
(* C9. Store initialization layout: create_excel_if_not_exists, called     *)
(* with the file absent or with any workbook, leaves a workbook holding    *)
(* exactly the sheets StepStone and LinkedIn, each with the 11 columns.    *)
(* Fails: with the file present only a sheet 'Jobs' is deleted; missing    *)
(* platform sheets are not created, and a workbook holding 'Jobs' alone    *)
(* cannot be saved without it.                                             *)
(***************************************************************************)
C9_InitLayout ==
    [][(CreateStep /\ (file = Missing \/ IsWorkbook(file))) =>
          /\ IsWorkbook(file')
          /\ SheetNames(file') = Platforms
          /\ \A p \in Platforms : file'.sheets[p].header = Columns]_vars

(***************************************************************************)
(* C10. Skip-on-missing-key: visiting a card from which no URL can be      *)
(* extracted leaves the list `jobs` as it was; and every record an adapter *)
(* holds or has returned, and every row of a platform sheet, has a         *)
(* non-empty URL.                                                          *)
(***************************************************************************)
C10_SkipOnMissingKey ==
    /\ [](/\ "" \notin JobUrls(jobs) \cup JobUrls(stepstone_jobs) \cup JobUrls(linkedin_jobs)
          /\ \A p \in Platforms : "" \notin SheetUrls(file, p))
    /\ [][(pc \in {"ss_card", "li_card"} /\ remaining' = remaining - 1 /\ NoUrlCard(card'))
             => jobs' = jobs]_vars

\* a LinkedIn card without URL has just been visited, with records collected
\* before it in this invocation and in the StepStone invocations
C10_Witness ==
    /\ pc = "li_card"
    /\ NoUrlCard(card)
    /\ card # NoCard
    /\ jobs # <<>>
    /\ stepstone_jobs # <<>>

(***************************************************************************)
(* C11. Within-call dedup guard: the list `jobs` of an adapter invocation  *)
(* (and so the list it returns) never holds a URL twice; a card step keeps *)
(* the records collected so far in place, appends the card's record when   *)
(* its URL is new and changes nothing when the URL was collected before,   *)
(* so the first occurrence is kept, in first-occurrence order.             *)
(***************************************************************************)
\* the step visits one card
CardStep == pc \in {"ss_card", "li_card"} /\ remaining' = remaining - 1

\* the URL of the posting a card links to, as the site serves it
PostingUrl(c) ==
    IF StartsWithHttp(c.href) THEN c.href
    ELSE (IF pc = "ss_card" THEN "https://www.stepstone.de"
          ELSE "https://www.linkedin.com") \o c.href

C11_WithinCallDedup ==
    /\ [](\A i, j \in 1..Len(jobs) : i # j => jobs[i].url # jobs[j].url)
    /\ [][CardStep =>
             /\ IsPrefix(jobs, jobs')
             /\ JobUrls(jobs') = JobUrls(jobs) \cup
                   (IF NoUrlCard(card') THEN {} ELSE {PostingUrl(card')})]_vars

\* on page 2 of a LinkedIn invocation the card of a posting collected first
\* on page 1 has been visited again, after a second posting was collected
C11_Witness ==
    /\ pc = "li_card"
    /\ page = 1
    /\ ~NoUrlCard(card)
    /\ Len(jobs) = 2
    /\ PostingUrl(card) = jobs[1].url

(***************************************************************************)
(* C12. Bounded pagination without retry: the pages an adapter invocation  *)
(* asks the browser to load are 1, 2, ... in this order, each once and at  *)
(* most max_pages of them; a page pass that finds no card, times out or    *)
(* raises leaves the page loop for the return statement with the list      *)
(* `jobs` as it was, loads no other page, and the return hands exactly     *)
(* that list to the orchestrator.                                          *)
(***************************************************************************)
\* the step is a pass of a page loop that does not reach the card loop
PageStops ==
    /\ pc \in {"ss_page", "li_page"}
    /\ pc' \notin {"ss_card", "li_card"}

C12_BoundedPagination ==
    /\ [](/\ Len(loaded) <= max_pages
          /\ \A i \in 1..Len(loaded) : loaded[i] = i)
    /\ [][PageStops =>
             /\ pc' = (IF pc = "ss_page" THEN "ss_return" ELSE "li_return")
             /\ jobs' = jobs]_vars
    /\ [][pc = "ss_return" =>
             /\ stepstone_jobs' = stepstone_jobs \o jobs
             /\ loaded' = <<>>]_vars
    /\ [][pc = "li_return" =>
             /\ linkedin_jobs' = linkedin_jobs \o jobs
             /\ loaded' = <<>>]_vars

\* a StepStone invocation collected a record on page 1, loaded page 2, found
\* it without cards (or timed out, or the pass raised) and is about to return
C12_Witness ==
    /\ pc = "ss_return"
    /\ page = 2
    /\ loaded = <<1, 2>>
    /\ Len(jobs) >= 1

(***************************************************************************)
(* C13. Optional filter steps never abort the scrape: whichever of the     *)
(* cookie banner, the 24-hour filter, the filter panel, the English        *)
(* checkbox and the apply button is clicked, times out or is absent, the   *)
(* StepStone adapter goes from each step to the next and from the last one *)
(* into the page loop with page = 1, where the pass for page 1 can run; no *)
(* such step touches the list `jobs`, prints an error or loads a page.     *)
(***************************************************************************)
\* the positions of the optional steps, in the order of the code
FilterSteps == <<"ss_cookie", "ss_time", "ss_lang", "ss_page">>

C13_FiltersNeverAbort ==
    /\ [][\A i \in 1..3 :
             pc = FilterSteps[i] =>
                /\ pc' = FilterSteps[i + 1]
                /\ jobs' = jobs /\ errors' = errors /\ loaded' = loaded
                /\ i = 3 => page' = 1]_vars
    /\ []((pc = "ss_page" /\ page = 1) => ENABLED SS_Page)

\* no optional step took effect, and the card loop of page 1 is running
C13_Witness ==
    /\ pc = "ss_card"
    /\ page = 1
    /\ applied = {}

(***************************************************************************)
(* C14. Per-platform sheet independence: a merge for one platform leaves   *)
(* the rows of the other platform's sheet as they were, and a merge that   *)
(* does not raise leaves in the target sheet the URLs that sheet held      *)
(* together with every URL of the batch, whether or not the other sheet    *)
(* holds that URL.                                                         *)
(***************************************************************************)
C14_SheetIndependence ==
    [][MergeStep =>
         LET p == last'.platform
         IN  /\ \A q \in Platforms \ {p} : RowsOf(file', q) = RowsOf(file, q)
             /\ ~last'.raised =>
                   SheetUrls(file', p) =
                      SheetUrls(file, p) \cup JobUrls(last'.new_jobs)]_vars

\* a StepStone merge has just added the posting whose URL the LinkedIn sheet
\* holds already
C14_Witness ==
    /\ last.op = "append"
    /\ last.platform = "StepStone"
    /\ ~last.raised
    /\ StoredRow["URL"] \in SheetUrls(file, "LinkedIn")
    /\ StoredRow["URL"] \in JobUrls(last.new_jobs)
    /\ \E i \in 1..Len(RowsOf(file, "StepStone")) :
          /\ RowsOf(file, "StepStone")[i]["URL"] = StoredRow["URL"]
          /\ RowsOf(file, "StepStone")[i]["Date Added"] \in Dates

====
